---- MODULE Spec2Model ----
(***************************************************************************)
(* OD request lifecycle of the ODTrack backend: the od_requests table, the *)
(* create and status-update endpoints with their authorization checks, and *)
(* the service functions they call.  Every endpoint call runs on a worker  *)
(* with its own database session; an await on the database is a point     *)
(* where another worker's call may run.                                    *)
(***************************************************************************)
EXTENDS Integers, Sequences, FiniteSets, TLC

VARIABLES
    od_requests,  \* the od_requests table: a sequence of rows in insertion order
    now,          \* the clock read by func.now() and datetime.now()
    call          \* per worker: the endpoint call it is serving

vars == <<od_requests, now, call>>

----------------------------------------------------------------------------
(* Bounds *)

\* Rows the table may hold.
MaxReq == 2
\* Last clock value; every insert and every update reads the clock and it
\* advances between two reads.
MaxTime == 3
\* Rows of the tables the read endpoints are called on.
MaxRows == 3

----------------------------------------------------------------------------
(* Values *)

\* Python None / SQL NULL in a text column or a text field of a payload.
None == "None"
\* SQL NULL in an integer or timestamp column (ids and the clock start at 1).
Null == 0

PENDING == "pending"
APPROVED == "approved"
REJECTED == "rejected"
ODStatus == {PENDING, APPROVED, REJECTED}

STUDENT == "student"
STAFF == "staff"
ADMIN == "admin"
SUPERUSER == "superuser"

\* The users table: id -> role, is_active.  It is not written by any of the
\* modelled endpoints.
users ==
    [id \in 1..6 |->
        CASE id = 1 -> [role |-> STUDENT, is_active |-> TRUE]
          [] id = 2 -> [role |-> STAFF, is_active |-> TRUE]
          [] id = 3 -> [role |-> ADMIN, is_active |-> TRUE]
          [] id = 4 -> [role |-> SUPERUSER, is_active |-> TRUE]
          [] id = 5 -> [role |-> STUDENT, is_active |-> FALSE]
          [] id = 6 -> [role |-> STUDENT, is_active |-> TRUE]]

\* The callers of the endpoints that write: one active user of every role,
\* and a student whose account is not active.
Callers == 1..5

\* The active students.
Students == {u \in DOMAIN users : users[u].role = STUDENT /\ users[u].is_active}

Workers == {"w1", "w2"}

\* Request bodies of the create endpoint: the ODRequestCreate fields, and in
\* the second body further keys that ODRequestCreate does not declare.
CreateBodies ==
    { [date |-> [day |-> "2024-05-01", time |-> "09:30:00"], periods |-> <<1, 2, 3>>, reason |-> "Sports Meet",
       attachment_url |-> None, register_number |-> "R1", student_name |-> "S1"],
      [date |-> [day |-> "2024-05-01", time |-> "09:30:00"], periods |-> <<1, 2, 3>>, reason |-> "Sports Meet",
       attachment_url |-> None, register_number |-> "R1", student_name |-> "S1",
       status |-> APPROVED, approved_by_id |-> 2, approved_at |-> 1] }

\* Request bodies of the create endpoint that are well typed (periods a
\* list of integers, reason a string) but empty: no period, or no reason.
EmptyFieldBodies ==
    { [date |-> [day |-> "2024-05-01", time |-> "09:30:00"], periods |-> <<>>, reason |-> "Sports Meet",
       attachment_url |-> None, register_number |-> "R1", student_name |-> "S1"],
      [date |-> [day |-> "2024-05-01", time |-> "09:30:00"], periods |-> <<1, 2, 3>>, reason |-> "",
       attachment_url |-> None, register_number |-> "R1", student_name |-> "S1"] }

\* Request bodies of the status-update endpoint: each of the two optional
\* fields of ODRequestUpdate is absent, null or a string.
StatusValues == {None, PENDING, APPROVED, REJECTED, "cancelled"}
ReasonValues == {None, "", "late"}
UpdateBodies ==
    { body \in UNION { [F -> StatusValues \cup ReasonValues] :
                          F \in SUBSET {"status", "rejection_reason"} } :
        /\ "status" \in DOMAIN body => body["status"] \in StatusValues
        /\ "rejection_reason" \in DOMAIN body
              => body["rejection_reason"] \in ReasonValues }

----------------------------------------------------------------------------
(* Schemas *)

ODRequestCreateFields ==
    {"date", "periods", "reason", "attachment_url", "register_number", "student_name"}

\* A schema that keeps the keys it does not declare (extra = "allow").
ODRequestCreate_KeepsExtras(body) == body

\* ODRequestCreate(**body).model_dump(): the declared fields; pydantic drops
\* the keys the schema does not declare.
ODRequestCreate(body) == [f \in ODRequestCreateFields |-> body[f]]

\* ODRequestUpdate(**body).model_dump(exclude_unset=True): only the fields
\* the body carried.
ODRequestUpdate(body) ==
    [f \in DOMAIN body \cap {"status", "rejection_reason"} |-> body[f]]

----------------------------------------------------------------------------
(* The od_requests table *)

\* The columns of the ODRequest model.
Columns ==
    {"id", "student_id", "register_number", "student_name", "date", "periods",
     "reason", "attachment_url", "status", "approved_by_id", "approved_at",
     "rejection_reason", "created_at", "updated_at"}

\* The row ODService.create inserts, ODRequest(**obj_in.model_dump(),
\* student_id=student_id, status="pending"): the dumped fields, the caller as
\* owner, status "pending"; a column the constructor is not given is NULL,
\* id is the next value of the primary key and created_at the server default.
NewRow(table, obj_in, student_id, t) ==
    [c \in Columns |->
        CASE c = "id" -> Len(table) + 1
          [] c = "student_id" -> student_id
          [] c = "status" -> PENDING
          [] c = "created_at" -> t
          [] c \in DOMAIN obj_in \ {"id", "student_id", "status", "created_at"}
                -> obj_in[c]
          [] c \in {"approved_by_id", "approved_at", "updated_at"}
                  \ DOMAIN obj_in -> Null
          [] OTHER -> None]

\* select(ODRequest).where(ODRequest.id == id), all matching rows in order.
RowsById(table, id) == SelectSeq(table, LAMBDA r : r.id = id)

\* A query that lost its where clause: .first() of the whole table.
NoRow == [id |-> Null]
Get_NoWhere(table, id) ==
    IF table = <<>> THEN NoRow ELSE Head(table)

\* ODService.get: .first() of the rows with this id, or NoRow (Python None).
Get(table, id) ==
    IF RowsById(table, id) = <<>> THEN NoRow ELSE Head(RowsById(table, id))

\* update_status recording the approver but not the time of the decision.
SetAttrs_NoApprovedAt(db_obj, update_data, approver_id, t) ==
    LET decided == /\ "status" \in DOMAIN update_data
                   /\ update_data["status"] \in {APPROVED, REJECTED}
    IN  [c \in DOMAIN db_obj |->
            IF c \in DOMAIN update_data THEN update_data[c]
            ELSE IF decided /\ c = "approved_by_id" THEN approver_id
            ELSE db_obj[c]]

\* The attribute assignments of ODService.update_status on the loaded
\* object: the approver and the approval time when the dumped status is
\* "approved" or "rejected", then every dumped field.
SetAttrs(db_obj, update_data, approver_id, t) ==
    LET decided == /\ "status" \in DOMAIN update_data
                   /\ update_data["status"] \in {APPROVED, REJECTED}
    IN  [c \in DOMAIN db_obj |->
            IF c \in DOMAIN update_data THEN update_data[c]
            ELSE IF decided /\ c = "approved_by_id" THEN approver_id
            ELSE IF decided /\ c = "approved_at" THEN t
            ELSE db_obj[c]]

\* The columns whose value the assignments changed from the loaded one: the
\* columns the session's flush writes.
Dirty(loaded, obj) == {c \in DOMAIN obj : obj[c] # loaded[c]}

\* An UPDATE without its WHERE clause: the dirty columns and updated_at are
\* written to every row.
Flush_NoWhere(table, loaded, obj, t) ==
    IF Dirty(loaded, obj) = {} THEN table
    ELSE [i \in DOMAIN table |->
            [c \in DOMAIN table[i] |->
                IF c \in Dirty(loaded, obj) THEN obj[c]
                ELSE IF c = "updated_at" THEN t
                ELSE table[i][c]]]

\* db.commit() of the session holding obj: UPDATE od_requests SET the dirty
\* columns and updated_at (onupdate) WHERE id = obj.id; nothing when no
\* column is dirty.
Flush(table, loaded, obj, t) ==
    IF Dirty(loaded, obj) = {} THEN table
    ELSE [i \in DOMAIN table |->
            IF table[i].id # obj.id THEN table[i]
            ELSE [c \in DOMAIN table[i] |->
                    IF c \in Dirty(loaded, obj) THEN obj[c]
                    ELSE IF c = "updated_at" THEN t
                    ELSE table[i][c]]]

----------------------------------------------------------------------------
(* Endpoint calls *)

\* What a worker holds of the call it serves: the endpoint (op) and its
\* position in it (pc), the caller, the path parameter, the body once it has
\* been read, the query parameters, the session's object db_obj, the row as
\* the endpoint's query returned it (loaded), the clock at that query and at
\* the commit, and the response once the call has returned.
NoResponse == [status_code |-> Null]
Idle ==
    [pc |-> "idle", op |-> "", current_user |-> Null, request_id |-> Null,
     body |-> <<>>, query |-> <<>>, loaded |-> NoRow, read_at |-> Null, db_obj |-> NoRow,
     write_at |-> Null, response |-> NoResponse]

HTTPException(code, detail) == [status_code |-> code, detail |-> detail]
Ok(content) == [status_code |-> 200, content |-> content]

\* deps.get_current_active_user refuses a user that is not active.
Inactive(u) == ~users[u].is_active

Free(w) == call[w].pc \in {"idle", "done"}

Raise(w, op, u, id, exc) ==
    call' = [call EXCEPT ![w] =
                [Idle EXCEPT !.pc = "done", !.op = op, !.current_user = u,
                             !.request_id = id, !.response = exc]]

\* A role check that lets every role through.
MayCreate_AnyRole(u) == users[u].role \in {STUDENT, STAFF, ADMIN, SUPERUSER}

\* The role check of create_od_request.
MayCreate(u) == users[u].role = STUDENT

\* POST /od_requests/ up to the commit of ODService.create.
CreateOdRequest(w, u, body) ==
    /\ Free(w)
    /\ IF Inactive(u)
       THEN /\ Raise(w, "create", u, Null, HTTPException(400, "Inactive user"))
            /\ UNCHANGED <<od_requests, now>>
       ELSE IF ~MayCreate(u)
       THEN /\ Raise(w, "create", u, Null,
                     HTTPException(403, "Only students can create OD requests"))
            /\ UNCHANGED <<od_requests, now>>
       ELSE /\ now <= MaxTime
            /\ Len(od_requests) < MaxReq
            /\ LET row == NewRow(od_requests, ODRequestCreate(body), u, now)
               IN  /\ od_requests' = Append(od_requests, row)
                   /\ call' = [call EXCEPT ![w] =
                                  [Idle EXCEPT !.pc = "committed", !.op = "create",
                                               !.current_user = u, !.body = body,
                                               !.db_obj = row, !.write_at = now]]
            /\ now' = now + 1

\* A role check that lets every role through.
MayDecide_AnyRole(u) == users[u].role \in {STUDENT, STAFF, ADMIN, SUPERUSER}

\* The role check of update_od_status.
MayDecide(u) == users[u].role \in {STAFF, ADMIN, SUPERUSER}

\* PUT /od_requests/{request_id}/status up to the return of ODService.get.
\* The parsed body status_update is not read before ODService.update_status
\* dumps it, so it is drawn there.
UpdateOdStatus(w, u, id) ==
    /\ Free(w)
    /\ UNCHANGED <<od_requests, now>>
    /\ IF Inactive(u)
       THEN Raise(w, "update", u, id, HTTPException(400, "Inactive user"))
       ELSE IF ~MayDecide(u)
       THEN Raise(w, "update", u, id,
                  HTTPException(403, "Not authorized to approve requests"))
       ELSE IF Get(od_requests, id) = NoRow
       THEN Raise(w, "update", u, id, HTTPException(404, "OD Request not found"))
       ELSE call' = [call EXCEPT ![w] =
                        [Idle EXCEPT !.pc = "loaded", !.op = "update",
                                     !.current_user = u, !.request_id = id,
                                     !.loaded = Get(od_requests, id),
                                     !.db_obj = Get(od_requests, id),
                                     !.read_at = now]]

\* ODService.update_status from its first line to db.commit(), on the
\* object the endpoint loaded and the body it was sent.
UpdateStatus(w, body) ==
    /\ call[w].pc = "loaded"
    /\ LET c == call[w]
           obj == SetAttrs(c.db_obj, ODRequestUpdate(body), c.current_user, now)
       IN  /\ Dirty(c.db_obj, obj) # {} => now <= MaxTime
           /\ od_requests' = Flush(od_requests, c.db_obj, obj, now)
           /\ now' = IF Dirty(c.db_obj, obj) # {} THEN now + 1 ELSE now
           /\ call' = [call EXCEPT ![w].pc = "committed", ![w].body = body,
                                   ![w].db_obj = obj, ![w].write_at = now]

\* db.refresh(db_obj) and the return of the endpoint: the row is read again
\* by primary key and serialised as the response.
Refresh(w) ==
    /\ call[w].pc = "committed"
    /\ call' = [call EXCEPT ![w].pc = "done",
                            ![w].db_obj = Get(od_requests, call[w].db_obj.id),
                            ![w].response = Ok(Get(od_requests, call[w].db_obj.id))]
    /\ UNCHANGED <<od_requests, now>>

----------------------------------------------------------------------------
(* Listing *)

\* The offsets and page sizes the listings are asked for.
Skips == {0, 1, 2}
Limits == {1, 2}

\* .where(ODRequest.student_id == student_id)
WhereStudent(rows, student_id) ==
    SelectSeq(rows, LAMBDA r : r.student_id = student_id)

\* .order_by(ODRequest.created_at.desc())
OrderByCreatedAtDesc(rows) ==
    SortSeq(rows, LAMBDA a, b : a.created_at > b.created_at)

\* .offset(skip)
Offset(rows, skip) == SubSeq(rows, skip + 1, Len(rows))

\* .limit(limit)
Limit(rows, limit) ==
    SubSeq(rows, 1, IF limit < Len(rows) THEN limit ELSE Len(rows))

\* A query that cuts the page before it skips.
GetMultiByStudent_LimitFirst(table, student_id, skip, limit) ==
    Offset(Limit(OrderByCreatedAtDesc(WhereStudent(table, student_id)), limit),
           skip)

\* ODService.get_multi_by_student: SELECT ... WHERE student_id = :student_id
\* ORDER BY created_at DESC LIMIT :limit OFFSET :skip.  The statement is
\* built with offset and limit before order_by; the SQL it renders orders
\* first, then skips, then cuts.
GetMultiByStudent(table, student_id, skip, limit) ==
    Limit(Offset(OrderByCreatedAtDesc(WhereStudent(table, student_id)), skip),
          limit)

\* GET /od_requests/me: the caller's own requests, whatever the caller's
\* role.
ReadOdRequestsMe(w, u, skip, limit) ==
    /\ Free(w)
    /\ UNCHANGED <<od_requests, now>>
    /\ IF Inactive(u)
       THEN Raise(w, "me", u, Null, HTTPException(400, "Inactive user"))
       ELSE call' = [call EXCEPT ![w] =
                        [Idle EXCEPT !.pc = "done", !.op = "me",
                                     !.current_user = u,
                                     !.query = [skip |-> skip, limit |-> limit],
                                     !.response =
                                        Ok(GetMultiByStudent(od_requests, u,
                                                             skip, limit))]]

\* .where(ODRequest.status == "pending")
WherePending(rows) == SelectSeq(rows, LAMBDA r : r.status = PENDING)

\* A query for the pending requests that lost its where clause.
GetAllPending_NoWhere(table, skip, limit) ==
    Limit(Offset(OrderByCreatedAtDesc(table), skip), limit)

\* ODService.get_all_pending: SELECT ... WHERE status = 'pending'
\* ORDER BY created_at DESC LIMIT :limit OFFSET :skip.
GetAllPending(table, skip, limit) ==
    Limit(Offset(OrderByCreatedAtDesc(WherePending(table)), skip), limit)

\* ODService.get_all: SELECT ... ORDER BY created_at DESC LIMIT :limit
\* OFFSET :skip.
GetAll(table, skip, limit) ==
    Limit(Offset(OrderByCreatedAtDesc(table), skip), limit)

\* A role check that lets every role through.
MayViewPending_AnyRole(u) == users[u].role \in {STUDENT, STAFF, ADMIN, SUPERUSER}

\* The role check of read_pending_od_requests.
MayViewPending(u) == users[u].role \in {STAFF, ADMIN, SUPERUSER}

\* GET /od_requests/pending
ReadPendingOdRequests(w, u, skip, limit) ==
    /\ Free(w)
    /\ UNCHANGED <<od_requests, now>>
    /\ IF Inactive(u)
       THEN Raise(w, "pending", u, Null, HTTPException(400, "Inactive user"))
       ELSE IF ~MayViewPending(u)
       THEN Raise(w, "pending", u, Null,
                  HTTPException(403, "Not authorized to view pending requests"))
       ELSE call' = [call EXCEPT ![w] =
                        [Idle EXCEPT !.pc = "done", !.op = "pending",
                                     !.current_user = u,
                                     !.query = [skip |-> skip, limit |-> limit],
                                     !.response =
                                        Ok(GetAllPending(od_requests, skip,
                                                         limit))]]

----------------------------------------------------------------------------
(* Analytics *)

\* .head(5)
TopN == 5

\* A status count with an entry, possibly zero, for each status of ODStatus.
StatusCounts_ZeroFilled(table) ==
    [s \in ODStatus |-> Cardinality({i \in DOMAIN table : table[i].status = s})]

\* df['status'].value_counts().to_dict(): the number of rows of each status
\* that some row has; value_counts leaves out the rows whose status is None
\* (dropna is True by default).
StatusCounts(table) ==
    [s \in {table[i].status : i \in DOMAIN table} \ {None} |->
        Cardinality({i \in DOMAIN table : table[i].status = s})]

\* df['student_id'].value_counts(): the number of rows of each student that
\* has a row; student_id is not nullable.
StudentCounts(table) ==
    [u \in {table[i].student_id : i \in DOMAIN table} |->
        Cardinality({i \in DOMAIN table : table[i].student_id = u})]

\* The orders value_counts can list the keys in: by descending count.  The
\* order of keys with equal counts follows the order in which the unordered
\* select returned the rows and the sort of the pandas in use, so each of
\* them is possible.
ValueCountsOrders(counts) ==
    { p \in [1..Cardinality(DOMAIN counts) -> DOMAIN counts] :
        /\ \A i, j \in DOMAIN p : i # j => p[i] # p[j]
        /\ \A i, j \in DOMAIN p : i < j => counts[p[i]] >= counts[p[j]] }

\* .value_counts().head(5).to_dict() for the keys in the given order: the
\* first five entries; a dict keeps the order of insertion.
TopStudents(counts, order) ==
    [k \in 1..(IF Len(order) < TopN THEN Len(order) ELSE TopN) |->
        [student_id |-> order[k], count |-> counts[order[k]]]]

\* get_stats without its branch for an empty table.
GetStats_NoEmptyBranch(table, order) ==
    [total_requests |-> Len(table),
     status_distribution |-> StatusCounts(table),
     top_student_ids |-> TopStudents(StudentCounts(table), order)]

\* AnalyticsService.get_stats over the rows of select(ODRequest).
GetStats(table, order) ==
    IF table = <<>>
    THEN [total_requests |-> 0, status_distribution |-> <<>>,
          top_students |-> <<>>]
    ELSE [total_requests |-> Len(table),
          status_distribution |-> StatusCounts(table),
          top_student_ids |-> TopStudents(StudentCounts(table), order)]

\* The role check of get_dashboard_stats.
MayViewAnalytics(u) == users[u].role \in {STAFF, ADMIN, SUPERUSER}

\* GET /analytics/dashboard
GetDashboardStats(w, u) ==
    /\ Free(w)
    /\ UNCHANGED <<od_requests, now>>
    /\ IF Inactive(u)
       THEN Raise(w, "dashboard", u, Null, HTTPException(400, "Inactive user"))
       ELSE IF ~MayViewAnalytics(u)
       THEN Raise(w, "dashboard", u, Null,
                  HTTPException(403, "Not authorized to view analytics"))
       ELSE \E order \in ValueCountsOrders(StudentCounts(od_requests)) :
               call' = [call EXCEPT ![w] =
                           [Idle EXCEPT !.pc = "done", !.op = "dashboard",
                                        !.current_user = u,
                                        !.response =
                                           Ok(GetStats(od_requests, order))]]

----------------------------------------------------------------------------
(* Report *)

\* od_service.get_all(db, limit=1000)
ReportLimit == 1000

\* r.date.strftime('%Y-%m-%d'): the day of the datetime, without its time.
Strftime(d) == d.day

\* A projection that lists the requests from the last to the first.
ReportData_Reversed(rows) ==
    [i \in DOMAIN rows |->
        [id |-> rows[Len(rows) + 1 - i].id,
         student_id |-> rows[Len(rows) + 1 - i].student_id,
         date |-> Strftime(rows[Len(rows) + 1 - i].date),
         status |-> rows[Len(rows) + 1 - i].status]]

\* The list comprehension of generate_od_report_pdf: one dict per request,
\* in the order of the query's result.
ReportData(rows) ==
    [i \in DOMAIN rows |->
        [id |-> rows[i].id, student_id |-> rows[i].student_id,
         date |-> Strftime(rows[i].date), status |-> rows[i].status]]

\* The role check of generate_od_report_pdf.
MayDownloadReports(u) == users[u].role \in {STAFF, ADMIN, SUPERUSER}

\* GET /analytics/reports/od_summary.pdf.  The response stands for the
\* rendered document by the rows handed to PDFService.generate_od_report,
\* which draws item['status'] as it is: with a status that is None the
\* renderer may as well raise, and the call ends as a server error.
GenerateOdReportPdf(w, u) ==
    /\ Free(w)
    /\ UNCHANGED <<od_requests, now>>
    /\ IF Inactive(u)
       THEN Raise(w, "report", u, Null, HTTPException(400, "Inactive user"))
       ELSE IF ~MayDownloadReports(u)
       THEN Raise(w, "report", u, Null,
                  HTTPException(403, "Not authorized to download reports"))
       ELSE LET data == ReportData(GetAll(od_requests, 0, ReportLimit))
            IN  \/ call' = [call EXCEPT ![w] =
                               [Idle EXCEPT !.pc = "done", !.op = "report",
                                            !.current_user = u,
                                            !.response = Ok(data)]]
                \/ /\ \E i \in DOMAIN data : data[i].status = None
                   /\ Raise(w, "report", u, Null,
                            HTTPException(500, "Internal Server Error"))

----------------------------------------------------------------------------
(* Specification *)

Init ==
    /\ od_requests = <<>>
    /\ now = 1
    /\ call = [w \in Workers |-> Idle]

\* Calls served one after another by a single worker, the listing of
\* pending requests with the default skip.
Next ==
    \/ \E u \in Callers, body \in CreateBodies :
            CreateOdRequest("w1", u, body)
    \/ \E u \in Callers, id \in 1..(MaxReq + 1) :
            UpdateOdStatus("w1", u, id)
    \/ \E body \in UpdateBodies : UpdateStatus("w1", body)
    \/ Refresh("w1")
    \/ \E u \in Callers, limit \in Limits :
            ReadPendingOdRequests("w1", u, 0, limit)

Spec == Init /\ [][Next]_vars

\* Calls served concurrently by two workers: active students submit
\* requests while staff and admins send bodies that name a status, with a
\* reason only on a rejection.
ConcurrentBodies ==
    { body \in UpdateBodies :
        /\ "status" \in DOMAIN body
        /\ "rejection_reason" \in DOMAIN body
              => body["status"] = REJECTED /\ body["rejection_reason"] = "late" }

NextConcurrent ==
    \/ \E w \in Workers, u \in {v \in Callers : MayCreate(v) /\ ~Inactive(v)},
          body \in CreateBodies :
            CreateOdRequest(w, u, body)
    \/ \E w \in Workers, u \in {v \in DOMAIN users : users[v].role \in {STAFF, ADMIN}},
          id \in 1..MaxReq :
            UpdateOdStatus(w, u, id)
    \/ \E w \in Workers, body \in ConcurrentBodies : UpdateStatus(w, body)
    \/ \E w \in Workers : Refresh(w)

SpecConcurrent == Init /\ [][NextConcurrent]_vars

\* Calls served one after another by a single worker, the creates with the
\* bodies that leave a field empty among them, the status updates by staff
\* and admins with the bodies of ConcurrentBodies.
NextCreate ==
    \/ \E u \in Callers, body \in CreateBodies \cup EmptyFieldBodies :
            CreateOdRequest("w1", u, body)
    \/ \E u \in {v \in DOMAIN users : users[v].role \in {STAFF, ADMIN}},
          id \in 1..MaxReq :
            UpdateOdStatus("w1", u, id)
    \/ \E body \in ConcurrentBodies : UpdateStatus("w1", body)
    \/ Refresh("w1")

SpecCreate == Init /\ [][NextCreate]_vars

\* The body with exactly the fields of ODRequestCreate.
PlainBody == CHOOSE body \in CreateBodies : DOMAIN body = ODRequestCreateFields

\* The table after the students of owners have each had a create of
\* PlainBody served, in this order, at the times 1, 2, ...
RECURSIVE Submitted(_)
Submitted(owners) ==
    IF owners = <<>> THEN <<>>
    ELSE LET table == Submitted(SubSeq(owners, 1, Len(owners) - 1))
         IN  Append(table,
                    NewRow(table, ODRequestCreate(PlainBody),
                           owners[Len(owners)], Len(owners)))

\* The bodies of the status updates that follow: none of the two fields, an
\* approval, a rejection with a reason, and a null status.
ReviewBodies ==
    { body \in UpdateBodies :
        \/ DOMAIN body = {}
        \/ DOMAIN body = {"status"} /\ body["status"] \in {APPROVED, None}
        \/ /\ DOMAIN body = {"status", "rejection_reason"}
           /\ body["status"] = REJECTED /\ body["rejection_reason"] = "late" }

\* The table after an active staff member has then had a status update
\* served for each of the requests 1..k, request i with bodies[i], at the
\* times that follow the creates.
RECURSIVE Reviewed(_, _, _)
Reviewed(table, bodies, k) ==
    IF k = 0 THEN table
    ELSE LET before == Reviewed(table, bodies, k - 1)
             approver == CHOOSE u \in Callers :
                            users[u].role = STAFF /\ ~Inactive(u)
             loaded == Get(before, k)
             obj == SetAttrs(loaded, ODRequestUpdate(bodies[k]), approver,
                             Len(table) + k)
         IN  Flush(before, loaded, obj, Len(table) + k)

\* The tables of up to MaxRows requests that such a run of creates and
\* status updates leaves.
Tables ==
    UNION { { Reviewed(Submitted(owners), bodies, n) :
                owners \in [1..n -> Students], bodies \in [1..n -> ReviewBodies] } :
            n \in 0..MaxRows }

\* The read endpoints called one after another on a table that creates and
\* status updates have filled: the two listings by students and staff, the
\* dashboard and the report by every user.
InitReads ==
    /\ od_requests \in Tables
    /\ now = 2 * Len(od_requests) + 1
    /\ call = [w \in Workers |-> Idle]

NextReads ==
    \/ \E u \in {v \in DOMAIN users : users[v].role \in {STUDENT, STAFF}},
          skip \in Skips, limit \in Limits :
            ReadOdRequestsMe("w1", u, skip, limit)
    \/ \E u \in DOMAIN users : GetDashboardStats("w1", u)
    \/ \E u \in {v \in DOMAIN users : users[v].role \in {STUDENT, STAFF}},
          skip \in Skips, limit \in Limits :
            ReadPendingOdRequests("w1", u, skip, limit)
    \/ \E u \in DOMAIN users : GenerateOdReportPdf("w1", u)

SpecReads == InitReads /\ [][NextReads]_vars

----------------------------------------------------------------------------
(* Vocabulary of the properties *)

\* The statuses of a decided request.
Decided == {APPROVED, REJECTED}

\* The error kind a response carries.
Kind(response) ==
    CASE response.status_code = 200 -> "Ok"
      [] response.status_code = 403 -> "Forbidden"
      [] response.status_code = 404 -> "NotFound"
      [] response.status_code = 409 -> "Conflict"
      [] response.status_code = 422 -> "ValidationError"
      [] OTHER -> "Other"

\* Worker w has returned from a call of endpoint op.
Returned(w, op) == call[w].pc = "done" /\ call[w].op = op

\* Worker w has returned from a status update that got past the role check
\* and found its request.
Updated(w) ==
    /\ Returned(w, "update")
    /\ MayDecide(call[w].current_user)
    /\ call[w].loaded # NoRow

\* The body names an approval, or a rejection with a reason.
ValidDecision(body) ==
    /\ "status" \in DOMAIN body
    /\ \/ body["status"] = APPROVED
       \/ /\ body["status"] = REJECTED
          /\ "rejection_reason" \in DOMAIN body
          /\ body["rejection_reason"] \notin {None, ""}

\* The step starts (and for a refused call, ends) a call of op on worker w.
Starts(w, op) ==
    /\ Free(w)
    /\ call'[w] # call[w]
    /\ call'[w].op = op

----------------------------------------------------------------------------
(* C1 *)

\* C1: once a stored request is approved or rejected, no step changes its
\* status, approved_by_id, approved_at or rejection_reason.
C1_TerminalStatesFinal ==
    [][\A i \in DOMAIN od_requests :
          od_requests[i].status \in Decided
            => /\ od_requests'[i].status = od_requests[i].status
               /\ od_requests'[i].approved_by_id = od_requests[i].approved_by_id
               /\ od_requests'[i].approved_at = od_requests[i].approved_at
               /\ od_requests'[i].rejection_reason = od_requests[i].rejection_reason]_vars

----------------------------------------------------------------------------
(* C2 *)

\* Each of the two calls queried the row no later than the other committed.
Overlap(w, x) ==
    /\ call[w].read_at <= call[x].write_at
    /\ call[x].read_at <= call[w].write_at

\* C2: when two status updates with valid decisions on the same request both
\* loaded it as pending before either committed, exactly one of them returns
\* success and the other Conflict, and the stored row carries the status and
\* the approver of the one that succeeded.
C2_RaceExactlyOneWins ==
    \A w \in Workers : \A x \in Workers \ {w} :
        ( /\ Updated(w) /\ Updated(x)
          /\ call[w].request_id = call[x].request_id
          /\ call[w].loaded.status = PENDING /\ call[x].loaded.status = PENDING
          /\ ValidDecision(call[w].body) /\ ValidDecision(call[x].body)
          /\ Overlap(w, x) )
        => \E win \in {w, x} :
              \E lose \in {w, x} \ {win} :
                 /\ Kind(call[win].response) = "Ok"
                 /\ Kind(call[lose].response) = "Conflict"
                 /\ Get(od_requests, call[win].request_id).status
                       = call[win].body["status"]
                 /\ Get(od_requests, call[win].request_id).approved_by_id
                       = call[win].current_user

----------------------------------------------------------------------------
(* C3 *)

\* C3: a status update by an authorized caller that found its request
\* already approved or rejected returns Conflict and leaves the stored row
\* as it found it.
C3_SecondUpdateConflicts ==
    \A w \in Workers :
        (Updated(w) /\ call[w].loaded.status \in Decided)
        => /\ Kind(call[w].response) = "Conflict"
           /\ Get(od_requests, call[w].request_id) = call[w].loaded

----------------------------------------------------------------------------
(* C4 *)

\* C4: every stored request with status pending has neither an approver nor
\* an approval time.
C4_PendingHasNoApprover ==
    \A i \in DOMAIN od_requests :
        od_requests[i].status = PENDING
            => /\ od_requests[i].approved_by_id = Null
               /\ od_requests[i].approved_at = Null

----------------------------------------------------------------------------
(* C5 *)

\* C5: every stored request that is approved or rejected has an approver and
\* an approval time, and no stored request has exactly one of the two.
C5_DecidedHasApproverAndTime ==
    \A i \in DOMAIN od_requests :
        /\ od_requests[i].status \in Decided
              => /\ od_requests[i].approved_by_id # Null
                 /\ od_requests[i].approved_at # Null
        /\ (od_requests[i].approved_by_id = Null)
              <=> (od_requests[i].approved_at = Null)

\* Two decisions that both loaded the request as pending, an approval and a
\* rejection by different callers, have both been committed.
C5_Witness ==
    \E w \in Workers : \E x \in Workers \ {w} :
        /\ Updated(w) /\ Updated(x)
        /\ call[w].request_id = call[x].request_id
        /\ call[w].loaded.status = PENDING /\ call[x].loaded.status = PENDING
        /\ Overlap(w, x)
        /\ call[w].body["status"] = APPROVED
        /\ call[x].body["status"] = REJECTED
        /\ call[w].current_user # call[x].current_user
        /\ Get(od_requests, call[w].request_id).status \in Decided
        /\ Get(od_requests, call[w].request_id).approved_by_id # Null

----------------------------------------------------------------------------
(* C6 *)

\* C6: a create call by an active student goes through and appends exactly
\* one row to the table, leaving the others as they are: its id is the id of
\* no row already stored, its status is pending, its owner is the caller and
\* it has neither an approver nor an approval time, whatever the body holds.
C6_CreatePersistsPending ==
    [][\A w \in Workers :
          ( /\ Starts(w, "create")
            /\ ~Inactive(call'[w].current_user)
            /\ users[call'[w].current_user].role = STUDENT )
          => /\ call'[w].pc = "committed"
             /\ Len(od_requests') = Len(od_requests) + 1
             /\ SubSeq(od_requests', 1, Len(od_requests)) = od_requests
             /\ LET new == od_requests'[Len(od_requests')]
                IN  /\ \A i \in DOMAIN od_requests : od_requests[i].id # new.id
                    /\ new.status = PENDING
                    /\ new.student_id = call'[w].current_user
                    /\ new.approved_by_id = Null
                    /\ new.approved_at = Null]_vars

\* A student's create whose body also named a status, an approver and an
\* approval time has returned the second row of the table, pending.
C6_Witness ==
    \E w \in Workers :
        /\ Returned(w, "create")
        /\ Kind(call[w].response) = "Ok"
        /\ "status" \in DOMAIN call[w].body
        /\ Len(od_requests) = 2
        /\ call[w].response.content = od_requests[2]
        /\ od_requests[2].id = 2
        /\ od_requests[2].status = PENDING

----------------------------------------------------------------------------
(* C7 *)

\* C7: a status update called by an active user whose role is student is
\* answered Forbidden at once, whichever request id it names, and leaves the
\* table as it is.
C7_StudentUpdateForbidden ==
    [][\A w \in Workers :
          ( /\ Starts(w, "update")
            /\ ~Inactive(call'[w].current_user)
            /\ users[call'[w].current_user].role = STUDENT )
          => /\ call'[w].pc = "done"
             /\ Kind(call'[w].response) = "Forbidden"
             /\ od_requests' = od_requests]_vars

\* A student has been refused the update of a stored pending request.
C7_Witness ==
    \E w \in Workers :
        /\ Returned(w, "update")
        /\ users[call[w].current_user].role = STUDENT
        /\ ~Inactive(call[w].current_user)
        /\ Kind(call[w].response) = "Forbidden"
        /\ Get(od_requests, call[w].request_id) # NoRow
        /\ Get(od_requests, call[w].request_id).status = PENDING

----------------------------------------------------------------------------
(* C8 *)

\* C8: a status update by an authorized caller on a pending request whose
\* body names no status, or a status other than approved and rejected,
\* returns ValidationError.
C8_OtherStatusIsInvalid ==
    \A w \in Workers :
        ( /\ Updated(w)
          /\ call[w].loaded.status = PENDING
          /\ \/ "status" \notin DOMAIN call[w].body
             \/ call[w].body["status"] \notin Decided )
        => Kind(call[w].response) = "ValidationError"

----------------------------------------------------------------------------
(* C9 *)

\* C9: the status of every stored request is pending, approved or rejected.
C9_StatusInEnum ==
    \A i \in DOMAIN od_requests : od_requests[i].status \in ODStatus

----------------------------------------------------------------------------
(* C10 *)

\* C10: a status update on a pending request whose body names the status
\* rejected with no rejection reason, a null or an empty one, returns
\* ValidationError and leaves the stored row as it found it.
C10_RejectNeedsReason ==
    \A w \in Workers :
        ( /\ Updated(w)
          /\ call[w].loaded.status = PENDING
          /\ "status" \in DOMAIN call[w].body
          /\ call[w].body["status"] = REJECTED
          /\ \/ "rejection_reason" \notin DOMAIN call[w].body
             \/ call[w].body["rejection_reason"] \in {None, ""} )
        => /\ Kind(call[w].response) = "ValidationError"
           /\ Get(od_requests, call[w].request_id) = call[w].loaded

----------------------------------------------------------------------------
(* C11 *)

\* C11: a status update called by an active staff, admin or superuser user
\* with an id that no stored request has is answered NotFound at once and
\* leaves the table as it is, with no row added.
C11_UnknownIdNotFound ==
    [][\A w \in Workers :
          ( /\ Starts(w, "update")
            /\ ~Inactive(call'[w].current_user)
            /\ users[call'[w].current_user].role \in {STAFF, ADMIN, SUPERUSER}
            /\ \A i \in DOMAIN od_requests :
                  od_requests[i].id # call'[w].request_id )
          => /\ call'[w].pc = "done"
             /\ Kind(call'[w].response) = "NotFound"
             /\ od_requests' = od_requests]_vars

\* A staff member has been answered NotFound for an id that none of the
\* stored requests has.
C11_Witness ==
    \E w \in Workers :
        /\ Returned(w, "update")
        /\ users[call[w].current_user].role = STAFF
        /\ Kind(call[w].response) = "NotFound"
        /\ od_requests # <<>>
        /\ \A i \in DOMAIN od_requests : od_requests[i].id # call[w].request_id

----------------------------------------------------------------------------
(* C12 *)

\* C12: a create called by an active staff, admin or superuser user is
\* answered Forbidden at once and leaves the table as it is.
C12_NonStudentCreateForbidden ==
    [][\A w \in Workers :
          ( /\ Starts(w, "create")
            /\ ~Inactive(call'[w].current_user)
            /\ users[call'[w].current_user].role \in {STAFF, ADMIN, SUPERUSER} )
          => /\ call'[w].pc = "done"
             /\ Kind(call'[w].response) = "Forbidden"
             /\ od_requests' = od_requests]_vars

\* A superuser has been refused a create while the table holds a request.
C12_Witness ==
    \E w \in Workers :
        /\ Returned(w, "create")
        /\ users[call[w].current_user].role = SUPERUSER
        /\ Kind(call[w].response) = "Forbidden"
        /\ od_requests # <<>>

----------------------------------------------------------------------------
(* C13 *)

\* C13: every stored request has at least one period, and a create whose
\* body has an empty list of periods or an empty reason is answered
\* ValidationError and leaves the table as it is.
C13_PeriodsAndReasonRequired ==
    /\ \A i \in DOMAIN od_requests : od_requests[i].periods # <<>>
    /\ \A w \in Workers :
          ( /\ call[w].op = "create"
            /\ call[w].pc # "idle"
            /\ ~Inactive(call[w].current_user)
            /\ users[call[w].current_user].role = STUDENT
            /\ \/ call[w].body.periods = <<>>
               \/ call[w].body.reason = "" )
          => /\ call[w].pc = "done"
             /\ Kind(call[w].response) = "ValidationError"

----------------------------------------------------------------------------
(* C14 *)

\* C14: a status update with a valid decision that found its request
\* pending and returned success returns the request with the status of its
\* body, with its own caller as approver and with an approval time.
C14_ReturnsOwnDecision ==
    \A w \in Workers :
        ( /\ Updated(w)
          /\ call[w].loaded.status = PENDING
          /\ ValidDecision(call[w].body)
          /\ Kind(call[w].response) = "Ok" )
        => /\ call[w].response.content.status = call[w].body["status"]
           /\ call[w].response.content.approved_by_id = call[w].current_user
           /\ call[w].response.content.approved_at # Null

----------------------------------------------------------------------------
(* C15 *)

\* The row carries a rejection reason: a text, not null and not empty.
HasReason(row) == row.rejection_reason \notin {None, ""}

\* C15: a stored request that is approved carries no rejection reason, and a
\* stored request that carries a rejection reason is rejected.
C15_ReasonOnlyOnRejected ==
    \A i \in DOMAIN od_requests :
        /\ od_requests[i].status = APPROVED => ~HasReason(od_requests[i])
        /\ HasReason(od_requests[i]) => od_requests[i].status = REJECTED

----------------------------------------------------------------------------
(* C16 *)

\* The sum of the counts of a mapping from keys to counts.
RECURSIVE SumOfCounts(_)
SumOfCounts(counts) ==
    IF DOMAIN counts = {} THEN 0
    ELSE LET k == CHOOSE x \in DOMAIN counts : TRUE
         IN  counts[k]
             + SumOfCounts([x \in DOMAIN counts \ {k} |-> counts[x]])

\* Worker w has returned the statistics of the dashboard.
ReturnedStats(w) == Returned(w, "dashboard") /\ Kind(call[w].response) = "Ok"

\* C16: in the statistics the dashboard returns, the counts of the status
\* distribution add up to total_requests, and total_requests is the number
\* of stored requests.
C16_DistributionSumsToTotal ==
    \A w \in Workers :
        ReturnedStats(w)
        => /\ SumOfCounts(call[w].response.content.status_distribution)
                 = call[w].response.content.total_requests
           /\ call[w].response.content.total_requests = Len(od_requests)

----------------------------------------------------------------------------
(* C19 *)

\* C19: the keys of the status distribution the dashboard returns are the
\* statuses that at least one stored request has, a null status being no
\* status, and each key maps to the number of stored requests with that
\* status, which is not zero.
C19_DistributionKeys ==
    \A w \in Workers :
        ReturnedStats(w)
        => LET dist == call[w].response.content.status_distribution
           IN  /\ DOMAIN dist
                     = {s \in StatusValues \ {None} :
                          \E i \in DOMAIN od_requests : od_requests[i].status = s}
               /\ \A s \in DOMAIN dist :
                     /\ dist[s] = Cardinality({i \in DOMAIN od_requests :
                                                 od_requests[i].status = s})
                     /\ dist[s] > 0

\* The dashboard has returned a distribution with two keys, one of them
\* with two requests, and without a key for rejected.
C19_Witness ==
    \E w \in Workers :
        /\ ReturnedStats(w)
        /\ LET dist == call[w].response.content.status_distribution
           IN  /\ Cardinality(DOMAIN dist) = 2
               /\ REJECTED \notin DOMAIN dist
               /\ \E s \in DOMAIN dist : dist[s] = 2

----------------------------------------------------------------------------
(* C18 *)

\* C18: on an empty table the dashboard returns exactly total_requests 0,
\* an empty status_distribution and an empty list top_students.
C18_EmptyStats ==
    \A w \in Workers :
        (ReturnedStats(w) /\ od_requests = <<>>)
        => call[w].response.content
              = [total_requests |-> 0, status_distribution |-> <<>>,
                 top_students |-> <<>>]

\* An admin has been returned the statistics of an empty table.
C18_Witness ==
    \E w \in Workers :
        /\ ReturnedStats(w)
        /\ users[call[w].current_user].role = ADMIN
        /\ od_requests = <<>>

----------------------------------------------------------------------------
(* C17 *)

\* The list of top students in the statistics, under either of the two
\* keys get_stats returns it with.
TopOf(content) ==
    IF "top_student_ids" \in DOMAIN content
    THEN content.top_student_ids ELSE content.top_students

\* The number of stored requests of student u.
RequestsOf(u) ==
    Cardinality({i \in DOMAIN od_requests : od_requests[i].student_id = u})

\* C17: the top students the dashboard returns are at most five students
\* with their numbers of stored requests, no student left out has more
\* requests than one listed, and the list is in descending order of count,
\* students with equal counts in ascending order of id.
C17_TopStudentsOrdered ==
    \A w \in Workers :
        ReturnedStats(w)
        => LET top == TopOf(call[w].response.content)
               owners == {od_requests[i].student_id : i \in DOMAIN od_requests}
           IN  /\ Len(top) = IF Cardinality(owners) < TopN
                             THEN Cardinality(owners) ELSE TopN
               /\ \A k \in DOMAIN top :
                     /\ top[k].student_id \in owners
                     /\ top[k].count = RequestsOf(top[k].student_id)
               /\ \A u \in owners :
                     (\A k \in DOMAIN top : top[k].student_id # u)
                     => \A k \in DOMAIN top : RequestsOf(u) <= top[k].count
               /\ \A j, k \in DOMAIN top :
                     j < k => \/ top[j].count > top[k].count
                              \/ /\ top[j].count = top[k].count
                                 /\ top[j].student_id < top[k].student_id

----------------------------------------------------------------------------
(* C20 *)

\* The stored requests of student u that were created after row.
NewerOf(u, row) ==
    {i \in DOMAIN od_requests :
        /\ od_requests[i].student_id = u
        /\ od_requests[i].created_at > row.created_at}

\* C20: the listing of the caller's requests with skip >= 0 and limit > 0
\* returns min(limit, max(0, n - skip)) requests, n being the number of the
\* caller's stored requests; each is a stored request of the caller, and
\* the k-th has exactly skip + k - 1 requests of the caller created after
\* it: the page is the elements skip .. skip + limit - 1 of the caller's
\* requests from the newest to the oldest.
C20_ListMinePage ==
    \A w \in Workers :
        (Returned(w, "me") /\ Kind(call[w].response) = "Ok")
        => LET u == call[w].current_user
               skip == call[w].query.skip
               limit == call[w].query.limit
               page == call[w].response.content
               n == RequestsOf(u)
               rest == IF n > skip THEN n - skip ELSE 0
           IN  /\ Len(page) = IF limit < rest THEN limit ELSE rest
               /\ \A k \in DOMAIN page :
                     /\ page[k].student_id = u
                     /\ \E i \in DOMAIN od_requests : od_requests[i] = page[k]
                     /\ Cardinality(NewerOf(u, page[k])) = skip + k - 1

\* A student with two of the three stored requests has asked for a page of
\* two after the first and got the older of the two.
C20_Witness ==
    \E w \in Workers :
        /\ Returned(w, "me")
        /\ Kind(call[w].response) = "Ok"
        /\ call[w].query = [skip |-> 1, limit |-> 2]
        /\ RequestsOf(call[w].current_user) = 2
        /\ Len(od_requests) = 3
        /\ Len(call[w].response.content) = 1

----------------------------------------------------------------------------
(* C21 *)

\* C21: the listing of pending requests returned to a staff, admin or
\* superuser caller holds only stored requests whose status is pending,
\* from the newest to the oldest; with skip 0 and a limit of at least the
\* number of pending requests it holds every one of them; and it holds no
\* request that was approved or rejected before the read, that is, none
\* with an approval time.
C21_PendingListing ==
    \A w \in Workers :
        (Returned(w, "pending") /\ Kind(call[w].response) = "Ok")
        => LET page == call[w].response.content
               pending == {i \in DOMAIN od_requests :
                              od_requests[i].status = PENDING}
           IN  /\ \A k \in DOMAIN page :
                     /\ \E i \in pending : od_requests[i] = page[k]
                     /\ page[k].approved_at = Null
               /\ \A j, k \in DOMAIN page :
                     j < k => page[j].created_at > page[k].created_at
               /\ ( /\ call[w].query.skip = 0
                    /\ call[w].query.limit >= Cardinality(pending) )
                  => \A i \in pending :
                        \E k \in DOMAIN page : page[k] = od_requests[i]

----------------------------------------------------------------------------
(* C22 *)

\* C22: an active student calling the listing of pending requests, the
\* dashboard or the report is answered Forbidden, whatever the table
\* holds, and the response carries neither requests nor statistics.
C22_StudentReadsForbidden ==
    \A w \in Workers :
        ( /\ call[w].pc = "done"
          /\ call[w].op \in {"pending", "dashboard", "report"}
          /\ ~Inactive(call[w].current_user)
          /\ users[call[w].current_user].role = STUDENT )
        => /\ Kind(call[w].response) = "Forbidden"
           /\ "content" \notin DOMAIN call[w].response

\* A student has been refused the report while the table holds requests.
C22_Witness ==
    \E w \in Workers :
        /\ Returned(w, "report")
        /\ ~Inactive(call[w].current_user)
        /\ users[call[w].current_user].role = STUDENT
        /\ Kind(call[w].response) = "Forbidden"
        /\ od_requests # <<>>

----------------------------------------------------------------------------
(* C23 *)

\* The columns a status update may write.
UpdateColumns ==
    {"status", "approved_by_id", "approved_at", "rejection_reason", "updated_at"}

\* C23: no step removes a stored request or changes a column of a stored
\* request other than status, approved_by_id, approved_at, rejection_reason
\* and updated_at; and the commit of a status update leaves the number of
\* requests and every request but its own as they are.
C23_UpdateFrame ==
    [][ /\ Len(od_requests') >= Len(od_requests)
        /\ \A i \in DOMAIN od_requests :
              \A c \in Columns \ UpdateColumns :
                 od_requests'[i][c] = od_requests[i][c]
        /\ \A w \in Workers :
              (call[w].pc = "loaded" /\ call'[w].pc = "committed")
              => /\ Len(od_requests') = Len(od_requests)
                 /\ \A i \in DOMAIN od_requests :
                       od_requests[i].id # call[w].request_id
                       => od_requests'[i] = od_requests[i] ]_vars

\* A status update has approved one of two stored requests and returned.
C23_Witness ==
    \E w \in Workers :
        /\ Updated(w)
        /\ Kind(call[w].response) = "Ok"
        /\ call[w].loaded.status = PENDING
        /\ call[w].response.content.status = APPROVED
        /\ Len(od_requests) = 2

----------------------------------------------------------------------------
(* C24 *)

\* The stored requests created after row.
NewerThan(row) ==
    {i \in DOMAIN od_requests : od_requests[i].created_at > row.created_at}

\* C24: the rows of a report are as many as the requests fetched for it,
\* all stored requests from the newest to the oldest, and the i-th row
\* carries exactly the id, the student id, the calendar date and the status
\* of the i-th of them.
C24_ReportProjection ==
    \A w \in Workers :
        (Returned(w, "report") /\ Kind(call[w].response) = "Ok")
        => LET data == call[w].response.content
           IN  /\ Len(data) = Len(od_requests)
               /\ \A i \in DOMAIN data :
                     \E j \in DOMAIN od_requests :
                        /\ Cardinality(NewerThan(od_requests[j])) = i - 1
                        /\ DOMAIN data[i] = {"id", "student_id", "date", "status"}
                        /\ data[i].id = od_requests[j].id
                        /\ data[i].student_id = od_requests[j].student_id
                        /\ data[i].date = od_requests[j].date.day
                        /\ data[i].status = od_requests[j].status

\* A report of three requests of two students, not all of one status, has
\* been returned.
C24_Witness ==
    \E w \in Workers :
        /\ Returned(w, "report")
        /\ Kind(call[w].response) = "Ok"
        /\ Len(call[w].response.content) = 3
        /\ \E i, j \in DOMAIN od_requests :
              /\ od_requests[i].student_id # od_requests[j].student_id
              /\ od_requests[i].status # od_requests[j].status

----------------------------------------------------------------------------
(* C25 *)

\* C25: the statistics the dashboard returns have the same field names
\* whatever the table holds: those returned for an empty table, namely
\* total_requests, status_distribution and top_students.
C25_SameStatsFields ==
    \A w \in Workers :
        ReturnedStats(w)
        => DOMAIN call[w].response.content
              = {"total_requests", "status_distribution", "top_students"}

====
